---- MODULE Spec2Model ----
(***************************************************************************)
(* Model of src/runtime/runtime_unix.go (TinyGo, Unix targets): the heap   *)
(* region (preinit, growHeap), the signal capture and delivery pipeline    *)
(* (signal_enable/ignore/disable, tinygo_signal_handler, checkSignals,     *)
(* signal_recv, signal_waitUntilIdle) and the scheduler's idle primitives  *)
(* (sleepTicks, waitForEvents).                                            *)
(***************************************************************************)
EXTENDS Integers, Sequences, FiniteSets, TLC

VARIABLES
    \* ---- heap region (runtime_unix.go:309-353)
    heapSize,       \* var heapSize uintptr
    heapMaxSize,    \* var heapMaxSize uintptr
    heapStart,      \* var heapStart uintptr
    heapEnd,        \* var heapEnd uintptr
    hpc,            \* position of preinit: "boot", "mmap", "ready", "fatal"
    mmapTries,      \* number of mmap calls preinit has made
    growRet,        \* result of the last growHeap call: "none", "true", "false"
    notifyCnt,      \* number of setHeapEnd calls made by growHeap
    \* ---- signal registration (runtime_unix.go:360-404)
    hasSignals,     \* var hasSignals bool
    activeSignals,  \* var activeSignals uint32, as the set of its 1 bits
    disp,           \* kernel disposition per signal number: "default", "handler", "ignore"
    \* ---- capture and delivery (runtime_unix.go:406-498)
    receivedSignals,\* var receivedSignals uint32, as the set of its 1 bits
    signalChan,     \* var signalChan chan uint32 (buffer contents)
    hstack,         \* tinygo_signal_handler invocations in progress, innermost last
    sigmask,        \* signals blocked by tinygo_wfi_mask
    kpending,       \* signals raised while blocked, pending in the kernel
    \* ---- ordinary context
    goos,           \* build target: "darwin" or "linux"
    pc,             \* position of the ordinary context
    op,             \* the operation the ordinary context is in
    ret,            \* where the running checkSignals call returns to
    val, num, gotSignals,   \* locals of checkSignals
    csRet,          \* result of the last checkSignals call
    wsig,           \* local "signal" of sleepTicks / waitForEvents
    intr,           \* a handler ran during the current usleep call
    cons, consVal,  \* the task in signal_recv, and its local val
    idler,          \* the task in signal_waitUntilIdle
    arg,            \* argument s of the running signal_enable / _ignore / _disable
    panicMsg,       \* the fatal diagnostic, "" while running
    \* ---- history (observers; no action reads them)
    lastSent,       \* number placed by checkSignals' last send, until its bit is cleared
    everPending,    \* signal numbers that have ever been marked in receivedSignals
    everSent,       \* signal numbers that have ever been sent on signalChan
    sc,             \* progress of the coalescing scenario
    dq,             \* bits pending when the running checkSignals started on an empty queue
    wEmpty,         \* signalChan was empty when the last waitForEvents was entered
    wSeen,          \* numbers pending at that entry or raised since
    wRaised,        \* numbers raised since that entry
    wRet,           \* the state is the one waitForEvents returned in
    sentInCall,     \* the current (or last) checkSignals call has sent a number
    oq,             \* numbers pending together, no arrival since, not yet received
    wiPhase         \* signal_waitUntilIdle past its first loop: "clean" until a
                    \* handler arrival, then "dirty"; "retClean" / "retDirty" in
                    \* the state it returned in; "off" otherwise

heapVars == <<heapSize, heapMaxSize, heapStart, heapEnd, hpc, mmapTries, growRet, notifyCnt>>

regVars == <<hasSignals, activeSignals, disp>>

kernVars == <<sigmask, kpending>>

csLocals == <<ret, val, num, gotSignals>>

taskVars == <<cons, consVal, idler>>

histVars == <<lastSent, everPending, everSent, sc, dq, wEmpty, wSeen, wRaised, wRet,
              sentInCall, oq, wiPhase>>

sigVars == <<regVars, receivedSignals, signalChan, hstack, kernVars, goos, pc, op,
             csLocals, csRet, wsig, intr, taskVars, arg, panicMsg, histVars>>

vars == <<heapVars, sigVars>>

(***************************************************************************)
(* Machine words.  uintptr is modelled at the width of the narrow targets  *)
(* (32 bits), the ones on which the 1 GiB reservation can fail.  A word is *)
(* handled as two 16-bit halves wherever an intermediate value can reach   *)
(* 2^31.                                                                   *)
(***************************************************************************)
Half == 256 * 256

PageSize == 4096

KiB == 1024

GiB == 1024 * 1024 * 1024

InitialHeapSize == 128 * KiB

\* x &^ 4095
ClearLowBits(x) == x - (x % PageSize)

\* (x * 4 / 3) on a 32-bit uintptr: the product wraps modulo 2^32, the
\* division is the unsigned division of the wrapped product.
Mul4Div3(x) ==
    LET lo4   == (x % Half) * 4
        hi4   == ((x \div Half) * 4 + (lo4 \div Half)) % Half
        lo    == lo4 % Half
        qh    == hi4 \div 3
        rh    == hi4 % 3
        ql    == (rh * Half + lo) \div 3
    IN  qh * Half + ql

\* addresses mmap may return (page aligned, region below 2^31)
MmapAddrs == {PageSize, 256 * 1024 * KiB}

InitHeap ==
    /\ heapSize = InitialHeapSize
    /\ heapMaxSize = 0
    /\ heapStart = 0
    /\ heapEnd = 0
    /\ hpc = "boot"
    /\ mmapTries = 0
    /\ growRet = "none"
    /\ notifyCnt = 0

\* preinit, line 318: heapMaxSize = 1 GiB, then the loop is entered
preinit ==
    /\ hpc = "boot"
    /\ heapMaxSize' = GiB
    /\ hpc' = "mmap"
    /\ UNCHANGED <<heapSize, heapStart, heapEnd, mmapTries, growRet, notifyCnt>>

\* preinit giving up already when heapMaxSize drops to 4096
mmapFailedFloorInclusive ==
    /\ hpc = "mmap"
    /\ mmapTries' = mmapTries + 1
    /\ heapMaxSize' = heapMaxSize \div 2
    /\ hpc' = IF heapMaxSize \div 2 <= PageSize THEN "fatal" ELSE "mmap"
    /\ UNCHANGED <<heapSize, heapStart, heapEnd, growRet, notifyCnt>>

\* preinit, lines 320-330: mmap returned MAP_FAILED
mmapFailed ==
    /\ hpc = "mmap"
    /\ mmapTries' = mmapTries + 1
    /\ heapMaxSize' = heapMaxSize \div 2
    /\ hpc' = IF heapMaxSize \div 2 < PageSize THEN "fatal" ELSE "mmap"
    /\ UNCHANGED <<heapSize, heapStart, heapEnd, growRet, notifyCnt>>

\* preinit, lines 320, 332-334: mmap returned an address
mmapOk(addr) ==
    /\ hpc = "mmap"
    /\ mmapTries' = mmapTries + 1
    /\ heapStart' = addr
    /\ heapEnd' = addr + heapSize
    /\ hpc' = "ready"
    /\ UNCHANGED <<heapSize, heapMaxSize, growRet, notifyCnt>>

\* the size growHeap computes, lines 347-350
grownSize(size, max) ==
    LET s == ClearLowBits(Mul4Div3(size))
    IN  IF s > max THEN max ELSE s

\* growHeap without the test for an exhausted heap
heapExhaustedNever(size, max) == FALSE

\* growHeap's test for an exhausted heap, line 341
heapExhausted(size, max) == size = max

\* setHeapEnd(newHeapEnd): the allocator records the new boundary
setHeapEnd(newHeapEnd) ==
    /\ heapEnd' = newHeapEnd
    /\ notifyCnt' = notifyCnt + 1

\* growHeap with the boundary passed on even when the heap is exhausted
growHeapNotifyAlways ==
    /\ hpc = "ready"
    /\ IF heapExhausted(heapSize, heapMaxSize)
       THEN /\ growRet' = "false"
            /\ setHeapEnd(heapStart + heapSize)
            /\ UNCHANGED heapSize
       ELSE /\ heapSize' = grownSize(heapSize, heapMaxSize)
            /\ setHeapEnd(heapStart + heapSize')
            /\ growRet' = "true"
    /\ UNCHANGED <<heapMaxSize, heapStart, hpc, mmapTries>>

growHeap ==
    /\ hpc = "ready"
    /\ IF heapExhausted(heapSize, heapMaxSize)
       THEN /\ growRet' = "false"
            /\ UNCHANGED <<heapSize, heapEnd, notifyCnt>>
       ELSE /\ heapSize' = grownSize(heapSize, heapMaxSize)
            /\ setHeapEnd(heapStart + heapSize')
            /\ growRet' = "true"
    /\ UNCHANGED <<heapMaxSize, heapStart, hpc, mmapTries>>

(***************************************************************************)
(* Signals.  A uint32 bit mask is modelled as the set of its 1 bits.       *)
(***************************************************************************)
\* the supported signal numbers the model raises and registers: two of them,
\* so that two numbers can be pending together, one the highest supported
ModelSigs == {0, 31}

\* the arguments passed to signal_enable / signal_ignore / signal_disable
SigInputs == ModelSigs \cup {32}

\* depth to which handler invocations nest (a handler interrupted by the
\* handler of another signal)
MaxNest == 2

\* make(chan uint32, 1)
ChanCap == 1

Neg1 == 0 - 1

\* uint32(1) << s: a shift by 32 or more gives 0
Bit(s) == IF s \in 0 .. 31 THEN {s} ELSE {}

Min(S) == CHOOSE x \in S : \A y \in S : x <= y

\* bits.TrailingZeros32(v)
TrailingZeros32(v) == IF v = {} THEN 32 ELSE Min(v)

\* values of the coalescing scenario's tracker
ScOff == [ph |-> "off", s |-> Neg1, k |-> 0]

ScQuiet == [ph |-> "quiet", s |-> Neg1, k |-> 0]

InitSig ==
    /\ hasSignals = FALSE
    /\ activeSignals = {}
    /\ disp = [s \in SigInputs |-> "default"]
    /\ receivedSignals = {}
    /\ signalChan = <<>>
    /\ hstack = <<>>
    /\ sigmask = {}
    /\ kpending = {}
    /\ goos \in {"darwin", "linux"}
    /\ pc = "idle"
    /\ op = "none"
    /\ ret = "none"
    /\ val = {}
    /\ num = Neg1
    /\ gotSignals = FALSE
    /\ csRet = FALSE
    /\ wsig = Neg1
    /\ intr = FALSE
    /\ cons = "idle"
    /\ consVal = Neg1
    /\ idler = "none"
    /\ arg = Neg1
    /\ panicMsg = ""
    /\ lastSent = Neg1
    /\ everPending = {}
    /\ everSent = {}
    /\ sc = ScQuiet
    /\ dq = {}
    /\ wEmpty = FALSE
    /\ wSeen = {}
    /\ wRaised = {}
    /\ wRet = FALSE
    /\ sentInCall = FALSE
    /\ oq = {}
    /\ wiPhase = "off"

Init == InitHeap /\ InitSig

\* the ordinary context runs: no fatal error, no handler in progress, and no
\* unblocked signal waiting to be delivered
MainRuns ==
    /\ panicMsg = ""
    /\ hstack = <<>>
    /\ kpending \ sigmask = {}

\* the ordinary context is between operations
AtIdle == MainRuns /\ pc = "idle"

\* the scheduler has no runnable task
noRunnable == cons # "ready" /\ idler \notin {"yield1", "yield2"}

\* ------------------------------------------------------------ registration

\* the range check written as s > 32
unsupportedOffByOne(s) == s > 32

\* the range check of signal_enable / signal_ignore / signal_disable
unsupported(s) == s >= 32

\* the C helpers: the kernel routes s to the handler, discards it, or
\* restores its default disposition
tinygo_signal_enable(s) == disp' = [disp EXCEPT ![s] = "handler"]

tinygo_signal_ignore(s) == disp' = [disp EXCEPT ![s] = "ignore"]

tinygo_signal_disable(s) == disp' = [disp EXCEPT ![s] = "default"]

\* activeSignals |= 1 << s
setBit(active, s) == active \cup Bit(s)

\* activeSignals ^= 1 << s
toggleBit(active, s) == (active \ Bit(s)) \cup (Bit(s) \ active)

\* activeSignals &^= 1 << s
clearBit(active, s) == active \ Bit(s)

\* a task calls signal_enable(s), signal_ignore(s) or signal_disable(s)
reg_call(fn, s) ==
    /\ AtIdle
    /\ op' = fn
    /\ arg' = s
    /\ pc' = "reg"
    /\ UNCHANGED <<regVars, receivedSignals, signalChan, hstack, kernVars, goos,
                   csLocals, csRet, wsig, intr, taskVars, panicMsg>>

RegReturn == pc' = "idle" /\ op' = "none" /\ arg' = Neg1

\* runtimePanicAt(returnAddress(0), "unsupported signal number")
RegPanic ==
    /\ panicMsg' = "unsupported signal number"
    /\ UNCHANGED <<regVars, pc, op, arg>>

signal_enable ==
    /\ MainRuns
    /\ pc = "reg"
    /\ op = "signal_enable"
    /\ IF unsupported(arg)
       THEN RegPanic
       ELSE /\ hasSignals' = TRUE
            /\ activeSignals' = setBit(activeSignals, arg)
            /\ tinygo_signal_enable(arg)
            /\ RegReturn
            /\ UNCHANGED panicMsg
    /\ UNCHANGED <<receivedSignals, signalChan, hstack, kernVars, goos,
                   csLocals, csRet, wsig, intr, taskVars>>

signal_ignore ==
    /\ MainRuns
    /\ pc = "reg"
    /\ op = "signal_ignore"
    /\ IF unsupported(arg)
       THEN RegPanic
       ELSE /\ activeSignals' = clearBit(activeSignals, arg)
            /\ tinygo_signal_ignore(arg)
            /\ RegReturn
            /\ UNCHANGED <<hasSignals, panicMsg>>
    /\ UNCHANGED <<receivedSignals, signalChan, hstack, kernVars, goos,
                   csLocals, csRet, wsig, intr, taskVars>>

signal_disable ==
    /\ MainRuns
    /\ pc = "reg"
    /\ op = "signal_disable"
    /\ IF unsupported(arg)
       THEN RegPanic
       ELSE /\ activeSignals' = clearBit(activeSignals, arg)
            /\ tinygo_signal_disable(arg)
            /\ RegReturn
            /\ UNCHANGED <<hasSignals, panicMsg>>
    /\ UNCHANGED <<receivedSignals, signalChan, hstack, kernVars, goos,
                   csLocals, csRet, wsig, intr, taskVars>>

\* ------------------------------------------------------------ the handler

\* a new invocation of tinygo_signal_handler(s)
Push(s) == hstack' = Append(hstack, [s |-> s, hpc |-> "load", val |-> {}])

Top == hstack[Len(hstack)]

SetTop(f) == hstack' = [hstack EXCEPT ![Len(hstack)] = f]

Pop == hstack' = SubSeq(hstack, 1, Len(hstack) - 1)

InHandler(s) == \E i \in 1 .. Len(hstack) : hstack[i].s = s

\* the kernel raises s: it is delivered to the handler at once, or stays
\* pending in the kernel while s is blocked
Raise(s) ==
    /\ panicMsg = ""
    /\ disp[s] = "handler"
    /\ IF s \in sigmask
       THEN /\ kpending' = kpending \cup {s}
            /\ UNCHANGED <<hstack, intr>>
       ELSE /\ Len(hstack) < MaxNest
            /\ ~InHandler(s)
            /\ Push(s)
            /\ intr' = (intr \/ pc = "slA_usleep")
            /\ UNCHANGED kpending
    /\ UNCHANGED <<regVars, receivedSignals, signalChan, sigmask, goos, pc, op,
                   csLocals, csRet, wsig, taskVars, arg, panicMsg>>

\* a signal that was pending while blocked is delivered once unblocked
Deliver(s) ==
    /\ panicMsg = ""
    /\ s \in kpending \ sigmask
    /\ Len(hstack) < MaxNest
    /\ ~InHandler(s)
    /\ Push(s)
    /\ kpending' = kpending \ {s}
    /\ UNCHANGED <<regVars, receivedSignals, signalChan, sigmask, goos, pc, op,
                   csLocals, csRet, wsig, intr, taskVars, arg, panicMsg>>

\* the value the handler's compare-and-swap installs
handlerNewVal(v, s) == v \cup Bit(s)

\* val := atomic.LoadUint32(&receivedSignals)
h_load ==
    /\ panicMsg = ""
    /\ hstack # <<>>
    /\ Top.hpc = "load"
    /\ SetTop([Top EXCEPT !.hpc = "cas", !.val = receivedSignals])
    /\ UNCHANGED <<regVars, receivedSignals, signalChan, kernVars, goos, pc, op,
                   csLocals, csRet, wsig, intr, taskVars, arg, panicMsg>>

\* atomic.CompareAndSwapUint32(&receivedSignals, val, val|mask)
h_cas ==
    /\ panicMsg = ""
    /\ hstack # <<>>
    /\ Top.hpc = "cas"
    /\ IF receivedSignals = Top.val
       THEN /\ receivedSignals' = handlerNewVal(Top.val, Top.s)
            /\ Pop
       ELSE /\ SetTop([Top EXCEPT !.hpc = "load", !.val = {}])
            /\ UNCHANGED receivedSignals
    /\ UNCHANGED <<regVars, signalChan, kernVars, goos, pc, op,
                   csLocals, csRet, wsig, intr, taskVars, arg, panicMsg>>

\* ------------------------------------------------------------ checkSignals

CallCheckSignals(r) ==
    /\ pc' = "cs_load"
    /\ ret' = r
    /\ gotSignals' = FALSE
    /\ val' = {}
    /\ num' = Neg1

ReturnCheckSignals ==
    /\ pc' = ret
    /\ csRet' = gotSignals
    /\ ret' = "none"
    /\ gotSignals' = FALSE
    /\ val' = {}
    /\ num' = Neg1

\* the highest pending number picked
pickHighest(v) == CHOOSE x \in v : \A y \in v : y <= x

\* num := uint32(bits.TrailingZeros32(val))
pickSignal(v) == TrailingZeros32(v)

\* newVal := 0
clearedAll(v, n) == {}

\* newVal := val
clearedNone(v, n) == v

\* newVal := val &^ (1 << num)
clearedVal(v, n) == v \ Bit(n)

\* val := atomic.LoadUint32(&receivedSignals); if val == 0 { return gotSignals }
cs_load ==
    /\ MainRuns
    /\ pc = "cs_load"
    /\ IF receivedSignals = {}
       THEN ReturnCheckSignals
       ELSE /\ val' = receivedSignals
            /\ num' = pickSignal(receivedSignals)
            /\ pc' = "cs_send"
            /\ UNCHANGED <<ret, gotSignals, csRet>>
    /\ UNCHANGED <<regVars, receivedSignals, signalChan, hstack, kernVars, goos, op,
                   wsig, intr, taskVars, arg, panicMsg>>

\* the send as on an unbuffered channel: only to a waiting receiver
canSendUnbuffered == cons = "blocked"

\* the non-blocking send can proceed: a receiver waits or the buffer has room
canSend == cons = "blocked" \/ Len(signalChan) < ChanCap

\* checkSignals dropping the number when the channel is full and going on
\* to the next pending one
cs_send_dropOnFull ==
    /\ MainRuns
    /\ pc = "cs_send"
    /\ IF canSend
       THEN /\ IF cons = "blocked"
               THEN /\ cons' = "ready"
                    /\ consVal' = num
                    /\ UNCHANGED signalChan
               ELSE /\ signalChan' = Append(signalChan, num)
                    /\ UNCHANGED <<cons, consVal>>
            /\ gotSignals' = TRUE
            /\ UNCHANGED receivedSignals
       ELSE /\ receivedSignals' = receivedSignals \ Bit(num)
            /\ UNCHANGED <<signalChan, cons, consVal, gotSignals>>
    /\ pc' = "cs_cas"
    /\ UNCHANGED <<regVars, hstack, kernVars, goos, op, ret, val, num, csRet,
                   wsig, intr, idler, arg, panicMsg>>

\* select { case signalChan <- num: gotSignals = true; default: return gotSignals }
cs_send ==
    /\ MainRuns
    /\ pc = "cs_send"
    /\ IF canSend
       THEN /\ IF cons = "blocked"
               THEN /\ cons' = "ready"
                    /\ consVal' = num
                    /\ UNCHANGED signalChan
               ELSE /\ signalChan' = Append(signalChan, num)
                    /\ UNCHANGED <<cons, consVal>>
            /\ gotSignals' = TRUE
            /\ pc' = "cs_cas"
            /\ UNCHANGED <<ret, val, num, csRet>>
       ELSE /\ ReturnCheckSignals
            /\ UNCHANGED <<signalChan, cons, consVal>>
    /\ UNCHANGED <<regVars, receivedSignals, hstack, kernVars, goos, op,
                   wsig, intr, idler, arg, panicMsg>>

\* swapped := atomic.CompareAndSwapUint32(&receivedSignals, val, newVal)
cs_cas ==
    /\ MainRuns
    /\ pc = "cs_cas"
    /\ IF receivedSignals = val
       THEN /\ receivedSignals' = clearedVal(val, num)
            /\ pc' = "cs_load"
            /\ val' = {}
            /\ num' = Neg1
       ELSE /\ pc' = "cs_reload"
            /\ UNCHANGED <<receivedSignals, val, num>>
    /\ UNCHANGED <<regVars, signalChan, hstack, kernVars, goos, op, ret, gotSignals,
                   csRet, wsig, intr, taskVars, arg, panicMsg>>

\* val = atomic.LoadUint32(&receivedSignals)
cs_reload ==
    /\ MainRuns
    /\ pc = "cs_reload"
    /\ val' = receivedSignals
    /\ pc' = "cs_cas"
    /\ UNCHANGED <<regVars, receivedSignals, signalChan, hstack, kernVars, goos, op,
                   ret, num, gotSignals, csRet, wsig, intr, taskVars, arg, panicMsg>>

\* ------------------------------------------------------------ signal_recv

\* val := <-signalChan: take the buffered number, or block the task
recv_start ==
    /\ AtIdle
    /\ cons = "idle"
    /\ IF signalChan # <<>>
       THEN /\ consVal' = Head(signalChan)
            /\ signalChan' = Tail(signalChan)
            /\ cons' = "running"
            /\ op' = "signal_recv"
            /\ CallCheckSignals("recv_ret")
       ELSE /\ cons' = "blocked"
            /\ UNCHANGED <<consVal, signalChan, op, pc, csLocals>>
    /\ UNCHANGED <<regVars, receivedSignals, hstack, kernVars, goos, csRet, wsig,
                   intr, idler, arg, panicMsg>>

\* the blocked task was handed a number and runs again: checkSignals()
recv_resume ==
    /\ AtIdle
    /\ cons = "ready"
    /\ cons' = "running"
    /\ op' = "signal_recv"
    /\ CallCheckSignals("recv_ret")
    /\ UNCHANGED <<regVars, receivedSignals, signalChan, hstack, kernVars, goos, csRet,
                   wsig, intr, consVal, idler, arg, panicMsg>>

\* return val
recv_ret ==
    /\ MainRuns
    /\ pc = "recv_ret"
    /\ pc' = "idle"
    /\ op' = "none"
    /\ cons' = "idle"
    /\ consVal' = Neg1
    /\ UNCHANGED <<regVars, receivedSignals, signalChan, hstack, kernVars, goos,
                   csLocals, csRet, wsig, intr, idler, arg, panicMsg>>

\* ------------------------------------------------------------ signal_waitUntilIdle

wi_start ==
    /\ AtIdle
    /\ idler = "none"
    /\ idler' = "running"
    /\ op' = "signal_waitUntilIdle"
    /\ pc' = "wi_test1"
    /\ UNCHANGED <<regVars, receivedSignals, signalChan, hstack, kernVars, goos,
                   csLocals, csRet, wsig, intr, cons, consVal, arg, panicMsg>>

\* the first loop left without testing receivedSignals
wi_test1_skip ==
    /\ MainRuns
    /\ pc = "wi_test1"
    /\ pc' = "wi_test2"
    /\ UNCHANGED <<regVars, receivedSignals, signalChan, hstack, kernVars, goos, op,
                   csLocals, csRet, wsig, intr, taskVars, arg, panicMsg>>

\* for atomic.LoadUint32(&receivedSignals) != 0 { checkSignals() ...
wi_test1 ==
    /\ MainRuns
    /\ pc = "wi_test1"
    /\ IF receivedSignals # {}
       THEN CallCheckSignals("wi_yield1")
       ELSE /\ pc' = "wi_test2"
            /\ UNCHANGED csLocals
    /\ UNCHANGED <<regVars, receivedSignals, signalChan, hstack, kernVars, goos, op,
                   csRet, wsig, intr, taskVars, arg, panicMsg>>

\* ... Gosched() } in the first loop
wi_yield1 ==
    /\ MainRuns
    /\ pc = "wi_yield1"
    /\ idler' = "yield1"
    /\ pc' = "idle"
    /\ op' = "none"
    /\ UNCHANGED <<regVars, receivedSignals, signalChan, hstack, kernVars, goos,
                   csLocals, csRet, wsig, intr, cons, consVal, arg, panicMsg>>

wi_resume1 ==
    /\ AtIdle
    /\ idler = "yield1"
    /\ idler' = "running"
    /\ op' = "signal_waitUntilIdle"
    /\ pc' = "wi_test1"
    /\ UNCHANGED <<regVars, receivedSignals, signalChan, hstack, kernVars, goos,
                   csLocals, csRet, wsig, intr, cons, consVal, arg, panicMsg>>

\* for len(signalChan) != 0 { Gosched() }; return
\* variant: the second loop never finds the queue empty
wi_test2_spin ==
    /\ MainRuns
    /\ pc = "wi_test2"
    /\ idler' = "yield2"
    /\ pc' = "idle"
    /\ op' = "none"
    /\ UNCHANGED <<regVars, receivedSignals, signalChan, hstack, kernVars, goos,
                   csLocals, csRet, wsig, intr, cons, consVal, arg, panicMsg>>

wi_test2 ==
    /\ MainRuns
    /\ pc = "wi_test2"
    /\ idler' = IF Len(signalChan) # 0 THEN "yield2" ELSE "none"
    /\ pc' = "idle"
    /\ op' = "none"
    /\ UNCHANGED <<regVars, receivedSignals, signalChan, hstack, kernVars, goos,
                   csLocals, csRet, wsig, intr, cons, consVal, arg, panicMsg>>

wi_resume2 ==
    /\ AtIdle
    /\ idler = "yield2"
    /\ idler' = "running"
    /\ op' = "signal_waitUntilIdle"
    /\ pc' = "wi_test2"
    /\ UNCHANGED <<regVars, receivedSignals, signalChan, hstack, kernVars, goos,
                   csLocals, csRet, wsig, intr, cons, consVal, arg, panicMsg>>

\* ------------------------------------------------------------ sleepTicks

\* tinygo_wfi_mask(active): block the active signals
tinygo_wfi_mask(active) == sigmask' = active

\* tinygo_wfi_unmask(): unblock them
tinygo_wfi_unmask == sigmask' = {}

\* what tinygo_wfi_sleep / tinygo_wfi_wait can return: a pending signal of the
\* set waited for; tinygo_wfi_sleep returns a negative number on timeout
wfiPending(active) == kpending \cap active

Return == pc' = "idle" /\ op' = "none"

\* the plain sleep never chosen
plainSleepNever == FALSE

\* if !hasSignals: the test for the plain sleep
plainSleep == ~hasSignals

\* if !hasSignals: usleep(uint(d) / 1000) is entered
sleep_plain ==
    /\ AtIdle
    /\ noRunnable
    /\ plainSleep
    /\ op' = "sleepTicks"
    /\ pc' = "sl_usleep"
    /\ UNCHANGED <<regVars, receivedSignals, signalChan, hstack, kernVars, goos,
                   csLocals, csRet, wsig, intr, taskVars, arg, panicMsg>>

\* usleep returns; return
sl_usleep ==
    /\ MainRuns
    /\ pc = "sl_usleep"
    /\ Return
    /\ UNCHANGED <<regVars, receivedSignals, signalChan, hstack, kernVars, goos,
                   csLocals, csRet, wsig, intr, taskVars, arg, panicMsg>>

\* darwin: if checkSignals() { return }
sleepA ==
    /\ AtIdle
    /\ noRunnable
    /\ ~plainSleep
    /\ goos = "darwin"
    /\ op' = "sleepTicks"
    /\ CallCheckSignals("slA_chk")
    /\ UNCHANGED <<regVars, receivedSignals, signalChan, hstack, kernVars, goos,
                   csRet, wsig, intr, taskVars, arg, panicMsg>>

slA_chk ==
    /\ MainRuns
    /\ pc = "slA_chk"
    /\ IF csRet
       THEN Return
       ELSE pc' = "slA_usleep" /\ UNCHANGED op
    /\ intr' = FALSE
    /\ UNCHANGED <<regVars, receivedSignals, signalChan, hstack, kernVars, goos,
                   csLocals, csRet, wsig, taskVars, arg, panicMsg>>

\* result := usleep(...); if result != 0 { checkSignals() }: usleep returns
\* nonzero when a handler interrupted it
slA_usleep ==
    /\ MainRuns
    /\ pc = "slA_usleep"
    /\ IF intr
       THEN CallCheckSignals("slA_ret") /\ UNCHANGED op
       ELSE Return /\ UNCHANGED csLocals
    /\ intr' = FALSE
    /\ UNCHANGED <<regVars, receivedSignals, signalChan, hstack, kernVars, goos,
                   csRet, wsig, taskVars, arg, panicMsg>>

slA_ret ==
    /\ MainRuns
    /\ pc = "slA_ret"
    /\ Return
    /\ UNCHANGED <<regVars, receivedSignals, signalChan, hstack, kernVars, goos,
                   csLocals, csRet, wsig, intr, taskVars, arg, panicMsg>>

\* linux: tinygo_wfi_mask(activeSignals); if checkSignals() { ...
sleepB ==
    /\ AtIdle
    /\ noRunnable
    /\ ~plainSleep
    /\ goos # "darwin"
    /\ op' = "sleepTicks"
    /\ tinygo_wfi_mask(activeSignals)
    /\ CallCheckSignals("slB_chk")
    /\ UNCHANGED <<regVars, receivedSignals, signalChan, hstack, kpending, goos,
                   csRet, wsig, intr, taskVars, arg, panicMsg>>

\* the early return of sleepTicks leaving the signals blocked
slB_chk_noUnmask ==
    /\ MainRuns
    /\ pc = "slB_chk"
    /\ IF csRet
       THEN Return
       ELSE pc' = "slB_sleep" /\ UNCHANGED op
    /\ UNCHANGED <<regVars, receivedSignals, signalChan, hstack, kernVars, goos,
                   csLocals, csRet, wsig, intr, taskVars, arg, panicMsg>>

\* ... tinygo_wfi_unmask(); return }
slB_chk ==
    /\ MainRuns
    /\ pc = "slB_chk"
    /\ IF csRet
       THEN tinygo_wfi_unmask /\ Return
       ELSE pc' = "slB_sleep" /\ UNCHANGED <<op, sigmask>>
    /\ UNCHANGED <<regVars, receivedSignals, signalChan, hstack, kpending, goos,
                   csLocals, csRet, wsig, intr, taskVars, arg, panicMsg>>

\* signal := tinygo_wfi_sleep(activeSignals, uint64(d));
\* if signal >= 0 { tinygo_signal_handler(signal) ...
slB_sleep ==
    /\ MainRuns
    /\ pc = "slB_sleep"
    /\ \E r \in IF wfiPending(activeSignals) # {} THEN wfiPending(activeSignals) ELSE {Neg1} :
        /\ wsig' = r
        /\ IF r >= 0
           THEN /\ kpending' = kpending \ {r}
                /\ Push(r)
                /\ pc' = "slB_drain"
           ELSE /\ pc' = "slB_unmask"
                /\ UNCHANGED <<kpending, hstack>>
    /\ UNCHANGED <<regVars, receivedSignals, signalChan, sigmask, goos, op,
                   csLocals, csRet, intr, taskVars, arg, panicMsg>>

\* ... checkSignals() }
slB_drain ==
    /\ MainRuns
    /\ pc = "slB_drain"
    /\ CallCheckSignals("slB_unmask")
    /\ UNCHANGED <<regVars, receivedSignals, signalChan, hstack, kernVars, goos, op,
                   csRet, wsig, intr, taskVars, arg, panicMsg>>

\* tinygo_wfi_unmask()
slB_unmask ==
    /\ MainRuns
    /\ pc = "slB_unmask"
    /\ tinygo_wfi_unmask
    /\ Return
    /\ wsig' = Neg1
    /\ UNCHANGED <<regVars, receivedSignals, signalChan, hstack, kpending, goos,
                   csLocals, csRet, intr, taskVars, arg, panicMsg>>

\* ------------------------------------------------------------ waitForEvents

\* the test that decides between waiting and the deadlock panic
canWait == hasSignals

\* the scheduler calls waitForEvents()
wfe_call ==
    /\ AtIdle
    /\ noRunnable
    /\ op' = "waitForEvents"
    /\ pc' = "wfe_test"
    /\ UNCHANGED <<regVars, receivedSignals, signalChan, hstack, kernVars, goos,
                   csLocals, csRet, wsig, intr, taskVars, arg, panicMsg>>

\* waitForEvents checking for signals without blocking them first
wfe_test_unmasked ==
    /\ MainRuns
    /\ pc = "wfe_test"
    /\ IF canWait
       THEN /\ CallCheckSignals("wfe_chk")
            /\ UNCHANGED <<panicMsg, sigmask>>
       ELSE /\ panicMsg' = "deadlocked: no event source"
            /\ UNCHANGED <<sigmask, pc, csLocals>>
    /\ UNCHANGED <<regVars, receivedSignals, signalChan, hstack, kpending, goos, op,
                   csRet, wsig, intr, taskVars, arg>>

\* if hasSignals { tinygo_wfi_mask(activeSignals); if checkSignals() { ...
\* } else { runtimePanic("deadlocked: no event source") }
wfe_test ==
    /\ MainRuns
    /\ pc = "wfe_test"
    /\ IF canWait
       THEN /\ tinygo_wfi_mask(activeSignals)
            /\ CallCheckSignals("wfe_chk")
            /\ UNCHANGED panicMsg
       ELSE /\ panicMsg' = "deadlocked: no event source"
            /\ UNCHANGED <<sigmask, pc, csLocals>>
    /\ UNCHANGED <<regVars, receivedSignals, signalChan, hstack, kpending, goos, op,
                   csRet, wsig, intr, taskVars, arg>>

\* ... tinygo_wfi_unmask(); return }
wfe_chk ==
    /\ MainRuns
    /\ pc = "wfe_chk"
    /\ IF csRet
       THEN tinygo_wfi_unmask /\ Return
       ELSE pc' = "wfe_wait" /\ UNCHANGED <<op, sigmask>>
    /\ UNCHANGED <<regVars, receivedSignals, signalChan, hstack, kpending, goos,
                   csLocals, csRet, wsig, intr, taskVars, arg, panicMsg>>

\* signal := tinygo_wfi_wait(activeSignals); tinygo_signal_handler(signal)
wfe_wait ==
    /\ MainRuns
    /\ pc = "wfe_wait"
    /\ \E r \in wfiPending(activeSignals) :
        /\ wsig' = r
        /\ kpending' = kpending \ {r}
        /\ Push(r)
        /\ pc' = "wfe_drain"
    /\ UNCHANGED <<regVars, receivedSignals, signalChan, sigmask, goos, op,
                   csLocals, csRet, intr, taskVars, arg, panicMsg>>

\* checkSignals()
wfe_drain ==
    /\ MainRuns
    /\ pc = "wfe_drain"
    /\ CallCheckSignals("wfe_unmask")
    /\ UNCHANGED <<regVars, receivedSignals, signalChan, hstack, kernVars, goos, op,
                   csRet, wsig, intr, taskVars, arg, panicMsg>>

\* tinygo_wfi_unmask()
wfe_unmask ==
    /\ MainRuns
    /\ pc = "wfe_unmask"
    /\ tinygo_wfi_unmask
    /\ Return
    /\ wsig' = Neg1
    /\ UNCHANGED <<regVars, receivedSignals, signalChan, hstack, kpending, goos,
                   csLocals, csRet, intr, taskVars, arg, panicMsg>>

(***************************************************************************)
(* Observers.  The history variables record what happened; they are        *)
(* computed from each step and read by no action.                          *)
(***************************************************************************)
\* how many arrivals the coalescing scenario counts before it stops counting
ArrCap == 2

CsPcs == {"cs_load", "cs_send", "cs_cas", "cs_reload"}

\* s was sent on signalChan and signal_recv has not taken it yet: it is in
\* the buffer, or was handed to the task blocked in the receive
InQueue(s) ==
    \/ \E i \in 1 .. Len(signalChan) : signalChan[i] = s
    \/ cons = "ready" /\ consVal = s

QueueEmpty == signalChan = <<>> /\ cons # "ready"

\* nothing pending anywhere and the ordinary context between operations
Quiet ==
    /\ receivedSignals = {}
    /\ QueueEmpty
    /\ hstack = <<>>
    /\ kpending = {}
    /\ pc = "idle"
    /\ cons \in {"idle", "blocked"}
    /\ panicMsg = ""

\* the step is a call of checkSignals
isCall == ret = "none" /\ ret' # "none"

\* the step is a successful send, of the number placed
isSend == pc = "cs_send" /\ pc' = "cs_cas"

placed == IF cons = "blocked" THEN consVal' ELSE signalChan'[Len(signalChan')]

\* the step is a handler invocation returning
isArrive == Len(hstack') < Len(hstack)

\* the step gives signal_recv its number
isTake == cons # "running" /\ cons' = "running"

isRecvRet == pc = "recv_ret" /\ pc' = "idle"

\* the numbers the kernel raises in the step
raisedNow ==
    (kpending' \ kpending) \cup
    (IF Len(hstack') > Len(hstack) /\ pc' = pc /\ kpending' = kpending
     THEN {hstack'[Len(hstack')].s} ELSE {})

isWfeCall == pc = "idle" /\ pc' = "wfe_test"

isWfeReturn == op = "waitForEvents" /\ op' = "none"

scBase ==
    IF sc.ph \in {"off", "consumed"}
    THEN (IF Quiet THEN ScQuiet ELSE ScOff)
    ELSE sc

scEvent ==
    LET b == scBase
        stop == IF b.ph \in {"dup", "wrong"} THEN b ELSE ScOff
    IN  IF isArrive
        THEN IF /\ b.ph \in {"quiet", "arrived"}
                /\ pc \in {"idle", "reg"}
                /\ Top.s \in 0 .. 31
                /\ b.s \in {Neg1, Top.s}
             THEN [ph |-> "arrived", s |-> Top.s,
                   k |-> IF b.k < ArrCap THEN b.k + 1 ELSE b.k]
             ELSE stop
        ELSE IF isSend
        THEN IF b.ph = "draining"
             THEN [b EXCEPT !.ph = IF placed = b.s THEN "sent" ELSE "wrong"]
             ELSE IF b.ph \in {"sent", "recving"}
             THEN [b EXCEPT !.ph = "dup"]
             ELSE stop
        ELSE IF isTake
        THEN IF b.ph = "sent"
             THEN [b EXCEPT !.ph = IF consVal' = b.s THEN "recving" ELSE "wrong"]
             ELSE b
        ELSE IF isCall
        THEN IF b.ph = "arrived" THEN [b EXCEPT !.ph = "draining"] ELSE b
        ELSE IF isRecvRet
        THEN IF b.ph = "recving" THEN [b EXCEPT !.ph = "consumed"] ELSE b
        ELSE b

\* marks a receive out of order
OrdBad == 0 - 2

\* the numbers pending together are recorded when checkSignals is called with
\* the queue empty and no handler running; any handler activity ends the
\* record; a receive must take the lowest recorded number
oqEvent ==
    IF OrdBad \in oq THEN oq
    ELSE IF hstack' # hstack \/ kpending' # kpending THEN {}
    ELSE IF isCall /\ QueueEmpty' THEN receivedSignals'
    ELSE IF isTake /\ oq # {}
         THEN (IF consVal' = Min(oq) THEN oq \ {consVal'} ELSE {OrdBad})
    ELSE oq

\* the first loop of signal_waitUntilIdle loads zero and is left
isWiLoop1Exit == pc = "wi_test1" /\ pc' = "wi_test2"

\* signal_waitUntilIdle returns
isWiReturn == pc = "wi_test2" /\ idler' = "none"

wiEvent ==
    IF isWiLoop1Exit THEN "clean"
    ELSE IF isWiReturn THEN (IF wiPhase = "clean" THEN "retClean" ELSE "retDirty")
    ELSE IF wiPhase \in {"retClean", "retDirty"} THEN "off"
    ELSE IF wiPhase = "clean" /\ isArrive THEN "dirty"
    ELSE wiPhase

Hist ==
    /\ lastSent' = IF isSend THEN placed
                   ELSE IF pc = "cs_cas" /\ pc' = "cs_load" THEN Neg1
                   ELSE lastSent
    /\ everPending' = everPending \cup receivedSignals'
    /\ everSent' = IF isSend THEN everSent \cup {placed} ELSE everSent
    /\ sc' = IF scEvent.ph = "off" /\ Quiet' THEN ScQuiet ELSE scEvent
    /\ dq' = IF isCall
             THEN (IF QueueEmpty' THEN receivedSignals' ELSE {})
             ELSE IF isArrive \/ raisedNow # {} THEN {}
             ELSE IF pc \notin CsPcs THEN {}
             ELSE dq
    /\ wEmpty' = IF isWfeCall THEN signalChan = <<>>
                 ELSE IF wRet THEN FALSE ELSE wEmpty
    /\ wSeen' = IF isWfeCall THEN receivedSignals
                ELSE IF wRet THEN {}
                ELSE IF op = "waitForEvents" THEN wSeen \cup raisedNow ELSE wSeen
    /\ wRaised' = IF isWfeCall \/ wRet THEN {}
                  ELSE IF op = "waitForEvents" THEN wRaised \cup raisedNow ELSE wRaised
    /\ wRet' = isWfeReturn
    /\ sentInCall' = IF isCall THEN FALSE ELSE IF isSend THEN TRUE ELSE sentInCall
    /\ oq' = oqEvent
    /\ wiPhase' = wiEvent

Obs == Hist /\ UNCHANGED heapVars

RegFns == {"signal_enable", "signal_ignore", "signal_disable"}

Next ==
    \/ \E fn \in RegFns, s \in SigInputs : reg_call(fn, s) /\ Obs
    \/ signal_enable /\ Obs
    \/ signal_ignore /\ Obs
    \/ signal_disable /\ Obs
    \/ \E s \in ModelSigs : Raise(s) /\ Obs
    \/ \E s \in ModelSigs : Deliver(s) /\ Obs
    \/ h_load /\ Obs
    \/ h_cas /\ Obs
    \/ cs_load /\ Obs
    \/ cs_send /\ Obs
    \/ cs_cas /\ Obs
    \/ cs_reload /\ Obs
    \/ recv_start /\ Obs
    \/ recv_resume /\ Obs
    \/ recv_ret /\ Obs
    \/ wi_start /\ Obs
    \/ wi_test1 /\ Obs
    \/ wi_yield1 /\ Obs
    \/ wi_resume1 /\ Obs
    \/ wi_test2 /\ Obs
    \/ wi_resume2 /\ Obs
    \/ sleep_plain /\ Obs
    \/ sl_usleep /\ Obs
    \/ sleepA /\ Obs
    \/ slA_chk /\ Obs
    \/ slA_usleep /\ Obs
    \/ slA_ret /\ Obs
    \/ sleepB /\ Obs
    \/ slB_chk /\ Obs
    \/ slB_sleep /\ Obs
    \/ slB_drain /\ Obs
    \/ slB_unmask /\ Obs
    \/ wfe_call /\ Obs
    \/ wfe_test /\ Obs
    \/ wfe_chk /\ Obs
    \/ wfe_wait /\ Obs
    \/ wfe_drain /\ Obs
    \/ wfe_unmask /\ Obs

Spec == Init /\ [][Next]_vars


\* Scheduling: the interrupted context runs again after a handler returns, a
\* handler at every nesting depth runs to its end (arrivals do not starve it
\* for ever), and a signal unblocked while pending is delivered.
OrdinaryStep ==
    pc # "idle" /\ hstack = <<>> /\ Next /\ (pc' # pc \/ panicMsg' # panicMsg)

HandlerStepAt(d) == Len(hstack) = d /\ (h_load \/ h_cas) /\ Obs

DeliverStep == kpending # {} /\ (\E s \in ModelSigs : Deliver(s)) /\ Obs

FairSpec ==
    /\ Spec
    /\ SF_vars(OrdinaryStep)
    /\ \A d \in 1 .. MaxNest : SF_vars(HandlerStepAt(d))
    /\ WF_vars(DeliverStep)

\* Task scheduling: the task in signal_recv calls it again and is resumed
\* when handed a number; the task in signal_waitUntilIdle is resumed after
\* each Gosched.
ConsumerStep == pc = "idle" /\ (recv_start \/ recv_resume) /\ Obs

IdlerResume == pc = "idle" /\ (wi_resume1 \/ wi_resume2) /\ Obs

\* the one thread runs on: the innermost handler, or else the ordinary
\* context inside an operation
ThreadStep ==
    \/ hstack # <<>> /\ (h_load \/ h_cas) /\ Obs
    \/ OrdinaryStep

FairSpecTasks ==
    /\ Spec
    /\ WF_vars(ThreadStep)
    /\ WF_vars(DeliverStep)
    /\ SF_vars(ConsumerStep)
    /\ SF_vars(IdlerResume)

NextHeap ==
    \/ preinit /\ UNCHANGED sigVars
    \/ mmapFailed /\ UNCHANGED sigVars
    \/ \E addr \in MmapAddrs : mmapOk(addr) /\ UNCHANGED sigVars
    \/ growHeap /\ UNCHANGED sigVars

SpecHeap == Init /\ [][NextHeap]_vars

\* preinit, once called, runs on: each mmap call returns
PreinitStep ==
    /\ hpc \in {"boot", "mmap"}
    /\ (preinit \/ mmapFailed \/ \E addr \in MmapAddrs : mmapOk(addr))
    /\ UNCHANGED sigVars

FairSpecHeap == SpecHeap /\ WF_vars(PreinitStep)

(***************************************************************************)
(* Heap region: claims C2, C3, C10 (checked under SpecHeap).               *)
(***************************************************************************)

\* C2: after preinit, for every reservation outcome and every sequence of
\* growHeap calls, heapSize never decreases from one call to the next, is a
\* multiple of the 4 KiB page size and never exceeds heapMaxSize.
C2_SizeMonotonePagedBounded ==
    [][hpc' = "ready" =>
         /\ heapSize' >= heapSize
         /\ heapSize' % PageSize = 0
         /\ heapSize' <= heapMaxSize']_vars

\* C3: once heapSize = heapMaxSize every growHeap call returns false and
\* leaves heapSize, heapEnd, heapStart and heapMaxSize unchanged without
\* calling setHeapEnd; and growHeap returns false only when
\* heapSize = heapMaxSize.
C3_GrowFailsExactlyAtMax ==
    [][/\ (hpc = "ready" /\ heapSize = heapMaxSize) =>
             (growRet' = "false" /\
              UNCHANGED <<heapSize, heapEnd, heapStart, heapMaxSize, notifyCnt>>)
       /\ (growRet' = "false") => (heapSize = heapMaxSize)]_vars

\* C3 witness: the heap grew to its maximum and a further call failed
C3_Witness ==
    /\ growRet = "false"
    /\ notifyCnt > 1
    /\ heapSize = heapMaxSize

\* C10: in every state after preinit, heapStart <= heapEnd,
\* heapEnd <= heapStart + heapMaxSize and heapEnd = heapStart + heapSize.
C10_LivePrefixInsideReservation ==
    hpc = "ready" =>
        /\ heapStart <= heapEnd
        /\ heapEnd <= heapStart + heapMaxSize
        /\ heapEnd = heapStart + heapSize

(***************************************************************************)
(* Signals and waits: claims C1, C4 - C9.                                  *)
(***************************************************************************)

\* C1: for every interleaving of handler arrivals with checkSignals steps, a
\* bit of receivedSignals is cleared only by checkSignals' compare-and-swap
\* and only for the number its send has just placed on signalChan; so every
\* number that ever became pending is still pending or has been sent.
C1_ClearedOnlyAfterSend ==
    /\ [][\A s \in receivedSignals \ receivedSignals' :
            pc = "cs_cas" /\ s = lastSent]_vars
    /\ [](everPending \subseteq receivedSignals \cup everSent)

\* C1 witness: a handler ran between checkSignals' send and its
\* compare-and-swap, which failed, with two numbers pending
C1_Witness ==
    /\ pc = "cs_reload"
    /\ lastSent \in receivedSignals
    /\ Cardinality(receivedSignals) = 2

\* C4: in every state in which activeSignals is zero, waitForEvents halts
\* with the deadlock diagnostic, so it is never in the blocking kernel wait.
C4_Original == activeSignals = {} => pc # "wfe_wait"

\* the step in which a registration call runs its body
RegStep == pc = "reg" /\ (pc' # "reg" \/ panicMsg' # panicMsg)

\* C5: signal_enable, signal_ignore and signal_disable halt for s >= 32 and
\* then leave activeSignals, hasSignals and the kernel dispositions as they
\* were; signal_enable(s) for s in 0..31 does not halt and sets bit s of
\* activeSignals, leaving every other bit.
C5_RangeCheck ==
    [][/\ (RegStep /\ arg >= 32) =>
             /\ panicMsg' = "unsupported signal number"
             /\ UNCHANGED <<activeSignals, hasSignals, disp>>
       /\ (RegStep /\ arg \in 0 .. 31 /\ op = "signal_enable") =>
             /\ panicMsg' = ""
             /\ pc' = "idle"
             /\ activeSignals' = activeSignals \cup {arg}]_vars

\* C5 witness: 31 was enabled, then a call with 32 halted
C5_Witness ==
    /\ panicMsg = "unsupported signal number"
    /\ arg = 32
    /\ 31 \in activeSignals

\* C6 as stated: a checkSignals call that started with the queue empty and
\* returned with no arrival in between has put every enabled number that was
\* pending at its start on the queue.
C6_Original ==
    (pc \notin CsPcs /\ dq # {}) => \A s \in dq \cap activeSignals : InQueue(s)

\* C6 amended: from a state with nothing pending and the queue empty, k >= 1
\* handler arrivals of one number S and of no other, all before the next
\* checkSignals call, make that call place exactly one S on the queue and
\* clear the bit; once signal_recv has returned it, with no further arrival,
\* receivedSignals is zero, the queue is empty and checkSignals returned
\* false.
C6_CoalescedSingleSignal ==
    /\ sc.ph \notin {"dup", "wrong"}
    /\ sc.ph = "draining" => pc \in {"cs_load", "cs_send"}
    /\ sc.ph = "sent" =>
          /\ InQueue(sc.s)
          /\ Len(signalChan) <= 1
          /\ pc \notin {"cs_cas", "cs_reload"} => receivedSignals = {}
    /\ sc.ph = "recving" =>
          /\ consVal = sc.s
          /\ receivedSignals = {}
          /\ QueueEmpty
    /\ sc.ph = "consumed" =>
          /\ receivedSignals = {}
          /\ QueueEmpty
          /\ csRet = FALSE

\* C6 witness: two or more arrivals of S were delivered once and consumed
C6_Witness == sc.ph = "consumed" /\ sc.k = ArrCap /\ sc.s \in activeSignals

\* C7 as stated: when waitForEvents returns from a call entered with the
\* queue empty, every number raised during the call is on the queue.
C7_Original == (wRet /\ wEmpty) => \A s \in wRaised : InQueue(s)

\* C7 amended: if S is raised after waitForEvents was entered with the queue
\* empty, the call returns; at its return the queue is not empty and S is on
\* it or still pending (in receivedSignals or blocked in the kernel) behind
\* the other number that is; S is on the queue when no other number was
\* pending at entry or raised.
C7_NoLostWakeup ==
    /\ []((wRet /\ wEmpty) => \A s \in wRaised :
            /\ ~QueueEmpty
            /\ InQueue(s) \/ s \in receivedSignals \cup kpending
            /\ wSeen = {s} => InQueue(s))
    /\ (op = "waitForEvents" /\ wEmpty /\ wRaised # {}) ~> wRet

\* C7 witness: waitForEvents, entered with the queue empty and nothing
\* pending, returned after S was raised, with S on the queue
C7_Witness ==
    /\ wRet
    /\ wEmpty
    /\ wRaised # {}
    /\ wSeen = wRaised
    /\ \A s \in wRaised : InQueue(s)

\* C8: signal_ignore(s) and signal_disable(s), s in 0..31, clear bit s of
\* activeSignals and leave every other bit; called on a signal already in
\* that state they leave activeSignals as it is.
C8_IgnoreDisableIdempotent ==
    [][(RegStep /\ arg \in 0 .. 31 /\ op \in {"signal_ignore", "signal_disable"}) =>
         /\ activeSignals' = activeSignals \ {arg}
         /\ (disp[arg] = (IF op = "signal_ignore" THEN "ignore" ELSE "default")
               => activeSignals' = activeSignals)]_vars

\* C8 witness: signal_ignore(0) is called again on the ignored signal 0 while
\* 31 is active
C8_Witness ==
    /\ pc = "reg"
    /\ op = "signal_ignore"
    /\ arg = 0
    /\ disp[0] = "ignore"
    /\ 31 \in activeSignals

\* C9: while no signal has ever been registered, sleepTicks enters the plain
\* usleep and returns from it, and neither step blocks or unblocks signals,
\* calls checkSignals or changes receivedSignals, activeSignals or the queue.
C9_PlainSleep ==
    [][/\ (op = "none" /\ op' = "sleepTicks" /\ ~hasSignals) =>
             /\ pc' = "sl_usleep"
             /\ UNCHANGED <<receivedSignals, activeSignals, hasSignals, signalChan,
                            sigmask, kpending, hstack, cons, consVal, csRet>>
       /\ (pc = "sl_usleep") =>
             /\ pc' = "idle"
             /\ op' = "none"
             /\ UNCHANGED <<receivedSignals, activeSignals, hasSignals, signalChan,
                            sigmask, kpending, hstack, cons, consVal, csRet>>]_vars

\* C9 witness: sleepTicks is in the plain usleep
C9_Witness == pc = "sl_usleep" /\ op = "sleepTicks" /\ ~hasSignals

(***************************************************************************)
(* Drain, receive and wait-until-idle: claims C11, C12, C15, C16, C19.     *)
(***************************************************************************)

\* the step in which the running checkSignals call returns
csReturns == pc \in {"cs_load", "cs_send"} /\ pc' = ret

\* C11: when checkSignals has picked a pending number and the channel is
\* full, its next step is the return: receivedSignals, the channel and the
\* receiving task are left as they were, and the result is true exactly when
\* an earlier iteration of this call sent a number.
C11_FullQueueDefers ==
    [][(pc = "cs_send" /\ ~canSend /\ pc' # pc) =>
         /\ csReturns
         /\ UNCHANGED <<receivedSignals, signalChan, cons, consVal>>
         /\ num \in receivedSignals'
         /\ csRet' = sentInCall]_vars

\* C11 witness: checkSignals returned true with a number still pending and
\* the channel full: its second send found no room
C11_Witness ==
    /\ pc \in {"slA_chk", "slB_chk", "wfe_chk", "recv_ret", "wi_yield1"}
    /\ csRet
    /\ sentInCall
    /\ receivedSignals # {}
    /\ Len(signalChan) = ChanCap

\* C12: every number checkSignals sends is the lowest bit of the value it
\* loaded in that iteration; and of the numbers pending together when
\* checkSignals is called with the queue empty, with no handler arrival
\* afterwards, signal_recv returns the lowest first, then the next.
C12_AscendingOrder ==
    /\ [][isSend => (val # {} /\ placed = Min(val))]_vars
    /\ [](OrdBad \notin oq)

\* C12 witness: 0 and 31 were pending together, signal_recv is returning 0
\* and 31 has been moved to the queue for the next signal_recv
C12_Witness ==
    /\ pc = "recv_ret"
    /\ consVal = 0
    /\ oq = {31}
    /\ signalChan = <<31>>

(***************************************************************************)
(* The idle primitives: claims C13, C14.                                   *)
(***************************************************************************)

\* C13: on darwin with hasSignals set, when the first checkSignals delivered
\* nothing and usleep was entered, the step that leaves usleep, interrupted
\* or not, calls checkSignals before sleepTicks returns.
C13_DrainAfterSleep ==
    [][(pc = "slA_usleep" /\ pc' # pc) =>
         (pc' = "cs_load" /\ ret' = "slA_ret" /\ op' = "sleepTicks")]_vars

\* the ordinary context is between tinygo_wfi_mask and tinygo_wfi_unmask
InMaskedWait ==
    \/ pc \in {"slB_chk", "slB_sleep", "slB_drain", "slB_unmask",
               "wfe_chk", "wfe_wait", "wfe_drain", "wfe_unmask"}
    \/ pc \in CsPcs /\ ret \in {"slB_chk", "slB_unmask", "wfe_chk", "wfe_unmask"}

\* C14: sleepTicks (linux) and waitForEvents block activeSignals, call
\* checkSignals at once, and either return or block in the kernel wait,
\* run the handler for the signal the wait returned, call checkSignals and
\* unblock; activeSignals stay blocked from the mask to the unmask, no
\* handler is entered in between except the one called for the woken
\* signal, and outside the interval nothing is blocked.
C14_MaskedWaitOrder ==
    /\ [](InMaskedWait => sigmask = activeSignals)
    /\ [](~InMaskedWait => sigmask = {})
    /\ [][(~InMaskedWait /\ InMaskedWait') =>
            (pc' = "cs_load" /\ ret' \in {"slB_chk", "wfe_chk"})]_vars
    /\ [][(pc \in {"slB_chk", "wfe_chk"} /\ pc' # pc) =>
            IF csRet THEN pc' = "idle" /\ op' = "none"
            ELSE pc' = (IF pc = "slB_chk" THEN "slB_sleep" ELSE "wfe_wait")]_vars
    /\ [][(pc \in {"slB_sleep", "wfe_wait"} /\ pc' # pc) =>
            IF wsig' >= 0
            THEN /\ pc' = (IF pc = "slB_sleep" THEN "slB_drain" ELSE "wfe_drain")
                 /\ hstack' = Append(hstack, [s |-> wsig', hpc |-> "load", val |-> {}])
            ELSE pc = "slB_sleep" /\ pc' = "slB_unmask" /\ hstack' = hstack]_vars
    /\ [][(pc \in {"slB_drain", "wfe_drain"} /\ pc' # pc) =>
            /\ pc' = "cs_load"
            /\ ret' = (IF pc = "slB_drain" THEN "slB_unmask" ELSE "wfe_unmask")]_vars
    /\ [][(InMaskedWait /\ ~InMaskedWait') =>
            /\ pc \in {"slB_chk", "slB_unmask", "wfe_chk", "wfe_unmask"}
            /\ pc' = "idle"
            /\ op' = "none"]_vars
    /\ [][(InMaskedWait /\ Len(hstack') > Len(hstack)) =>
            pc \in {"slB_sleep", "wfe_wait"} /\ pc' # pc]_vars

\* C14 witness: sleepTicks was woken by 31 in the kernel wait, ran the
\* handler for it and drained, and is about to unblock 0 and 31
C14_Witness ==
    /\ pc = "slB_unmask"
    /\ wsig = 31
    /\ sigmask = {0, 31}
    /\ csRet

(***************************************************************************)
(* Refill after receive: claim C15.                                        *)
(***************************************************************************)

C16_Original ==
    wiPhase \in {"retClean", "retDirty"} => (receivedSignals = {} /\ signalChan = <<>>)

\* C16 amended: signal_waitUntilIdle returns only in a state where the
\* channel is empty, and where receivedSignals is zero unless a handler
\* arrival completed after the load that ended the first loop.
C16_IdleAtReturn ==
    /\ wiPhase \in {"retClean", "retDirty"} => signalChan = <<>>
    /\ wiPhase = "retClean" => receivedSignals = {}

\* C16 witness: signal_waitUntilIdle returned after both 0 and 31 had been
\* sent and received, its second loop having yielded with the channel full
C16_Witness ==
    /\ wiPhase = "retClean"
    /\ everSent = {0, 31}
    /\ cons # "ready"

(***************************************************************************)
(* Heap: claims C17, C18, C20.                                             *)
(***************************************************************************)

\* number of sizes preinit can try: 1 GiB, 512 MiB, ..., 4 KiB
NumCandidates == Cardinality({k \in 0 .. 30 : GiB \div (2 ^ k) >= PageSize})

\* C17: preinit ends, with the region reserved or with the fatal error; the
\* k-th mmap call asks for 1 GiB / 2^(k-1), never for less than 4 KiB; the
\* reserved size is the first one mmap accepted; the fatal error is raised
\* after the 19th call failed, when heapMaxSize drops below 4096.
C17_PreinitTerminates ==
    /\ [](hpc = "mmap" =>
            /\ mmapTries < NumCandidates
            /\ heapMaxSize = GiB \div (2 ^ mmapTries)
            /\ heapMaxSize >= PageSize)
    /\ [](hpc = "ready" =>
            /\ mmapTries \in 1 .. NumCandidates
            /\ heapMaxSize = GiB \div (2 ^ (mmapTries - 1)))
    /\ [](hpc = "fatal" =>
            /\ mmapTries = NumCandidates
            /\ heapMaxSize < PageSize)
    /\ [][mmapTries' # mmapTries =>
            /\ hpc = "mmap"
            /\ mmapTries' = mmapTries + 1
            /\ (hpc' = "ready" => heapMaxSize' = heapMaxSize)
            /\ (hpc' # "ready" => heapMaxSize' = heapMaxSize \div 2)]_vars
    /\ <>(hpc \in {"ready", "fatal"})

\* C17 witness: every size down to 4 KiB was refused
C17_Witness == hpc = "fatal" /\ mmapTries = NumCandidates /\ heapMaxSize = 2048

\* C18: every growHeap call that returns true (it has then called
\* setHeapEnd) leaves heapSize strictly larger than it found it.
C18_GrowStrictlyIncreases ==
    [][(hpc = "ready" /\ growRet' = "true" /\ notifyCnt' # notifyCnt) =>
         heapSize' > heapSize]_vars

\* C20: whenever growHeap computes heapSize * 4 / 3, heapSize is below 2^30,
\* so the product is below 2^32 and the 32-bit result equals the quotient
\* computed on unbounded integers, 4x / 3 = x + x / 3 (rounded down).
C20_ProductFitsWord ==
    [][(hpc = "ready" /\ notifyCnt' # notifyCnt) =>
         /\ heapSize < GiB
         /\ Mul4Div3(heapSize) = heapSize + (heapSize \div 3)
         /\ heapSize' = (IF ClearLowBits(heapSize + (heapSize \div 3)) > heapMaxSize
                         THEN heapMaxSize
                         ELSE ClearLowBits(heapSize + (heapSize \div 3)))]_vars

\* C20 witness: growHeap grew a heap of more than 2^29 bytes, whose product
\* heapSize * 4 is above 2^31, to the full 1 GiB
C20_Witness ==
    /\ growRet = "true"
    /\ heapSize = GiB
    /\ heapMaxSize = GiB
    /\ heapEnd = heapStart + GiB

\* the kernel raises a signal in the step
ArrivalStep == raisedNow # {}

\* C19: with the tasks scheduled fairly and the consumer task calling
\* signal_recv again and again, a signal_waitUntilIdle call returns, unless
\* signals keep arriving for ever or the runtime halts with a fatal error.
C19_IdleTerminates ==
    \/ []<><<ArrivalStep>>_vars
    \/ <>(panicMsg # "")
    \/ (idler # "none" ~> idler = "none")

\* C19 witness: signal_waitUntilIdle has yielded in its second loop with the
\* channel occupied, a further signal pending and the consumer about to call
\* signal_recv
C19_Witness ==
    /\ idler = "yield2"
    /\ pc = "idle"
    /\ signalChan # <<>>
    /\ receivedSignals # {}
    /\ cons = "idle"

====
